---------------------------- MODULE Spec2Model ----------------------------
(***************************************************************************)
(* Model of src/main.py: a FastAPI application with one question-answering *)
(* endpoint (POST /ask) over a FAISS index loaded once at import time, and *)
(* a health check (GET /).                                                 *)
(*                                                                         *)
(* The handler `ask` is modelled statement by statement (one action per    *)
(* outbound call or block), each request holding its own locals, so that   *)
(* the order of the steps inside one request and every interleaving of     *)
(* several requests is explored.  The libraries the handler calls are      *)
(* modelled by their contract: FAISS.similarity_search returns the k       *)
(* nearest stored documents or raises, the completion client returns a     *)
(* response object or raises.                                              *)
(***************************************************************************)
EXTENDS Integers, Sequences, FiniteSets, TLC

(* ------------------------------ bounds --------------------------------- *)

\* Number of POST /ask requests the model serves.
MaxRequests == 2

\* Number of document chunks the persisted index may hold.
MaxDocs == 4

(* ------------------------- program constants --------------------------- *)

\* similarity_search(query, k=3)
K == 3

\* HTTPException(status_code=500, ...)
StatusError == 500

NotLoadedDetail == "FAISS vector store not loaded"

(* ------------------------------ inputs --------------------------------- *)

Reqs == 1..MaxRequests

\* QueryRequest.query: the request bodies tried.
Queries == {"How do I add money to JioPay wallet?", "refund status"}

\* What the completion model may answer.
CompletionTexts == {"Open the app and tap Add Money.", "I don't know"}

\* What the retrieval path may raise.
SearchErrors == {[type |-> "RuntimeError", msg |-> "index is malformed"]}

\* What the completion client may raise.
CompletionErrors ==
    {[type |-> "APITimeoutError", msg |-> "Request timed out."],
     [type |-> "RateLimitError", msg |-> "Rate limit reached"]}

(* --------------------------- the document store ------------------------ *)

\* The metadata of the stored chunks: some carry a title, some a source_url
\* only, and every third chunk carries no source_url at all.
Metadata(i) ==
    CASE i % 3 = 1 -> [source_url |-> "https://jiopay.example/" \o ToString(i)]
      [] i % 3 = 2 -> [source_url |-> "https://jiopay.example/" \o ToString(i),
                       title |-> "page " \o ToString(i)]
      [] OTHER     -> [title |-> "page " \o ToString(i)]

\* A langchain Document: page_content and metadata.
Doc(i) == [page_content |-> "chunk " \o ToString(i), metadata |-> Metadata(i)]

\* The embedding of a query: a point on a line, left or right of every chunk.
Embed(q) == IF q = "refund status" THEN MaxDocs + 1 ELSE 0

\* The value of vector_store when the load failed.
None == [kind |-> "None"]

\* The value of vector_store before the module body reached the load.
Unbound == [kind |-> "unbound"]

\* A loaded index: the stored vectors with their documents.
FAISS(ids) == [kind |-> "FAISS", entries |-> {[vec |-> i, doc |-> Doc(i)] : i \in ids}]

\* The indexes that may be persisted under "jiopay_index".
PersistedIndexes == {FAISS(ids) : ids \in SUBSET (1..MaxDocs)}

Dist(a, b) == IF a >= b THEN a - b ELSE b - a

Nearest(entries, qv) ==
    CHOOSE e \in entries : \A f \in entries : Dist(e.vec, qv) <= Dist(f.vec, qv)

RECURSIVE TopK(_, _, _)
TopK(entries, qv, k) ==
    IF k = 0 \/ entries = {}
    THEN <<>>
    ELSE LET e == Nearest(entries, qv)
         IN  <<e.doc>> \o TopK(entries \ {e}, qv, k - 1)

\* vector_store.similarity_search(query, k): the k nearest documents, nearest first.
SimilaritySearch(vs, q, k) == TopK(vs.entries, Embed(q), k)

(* ------------------------- the handler's pure parts -------------------- *)

\* str(e): a KeyError prints the repr of its key, any other error its message.
Str(e) == IF e.type = "KeyError" THEN "'" \o e.msg \o "'" ELSE e.msg

HTTPException(status_code, detail) ==
    [status_code |-> status_code, body |-> [detail |-> detail]]

\* Variant: the detail is a fixed text instead of the error's message.
OnExceptionGeneric(e) == HTTPException(StatusError, "Internal Server Error")

\* What the broad except clause makes of an exception e.
OnException(e) == HTTPException(StatusError, Str(e))

HasSourceUrl(doc) == "source_url" \in DOMAIN doc.metadata

\* f"Content: {doc.page_content}\nSource: {doc.metadata['source_url']}"
Block(doc) ==
    "Content: " \o doc.page_content \o "\nSource: " \o doc.metadata["source_url"]

\* sep.join(strs)
RECURSIVE Join(_, _)
Join(sep, strs) ==
    IF Len(strs) = 0 THEN ""
    ELSE IF Len(strs) = 1 THEN strs[1]
    ELSE strs[1] \o sep \o Join(sep, Tail(strs))

RetrievedContent(docs) == Join("\n\n", [i \in 1..Len(docs) |-> Block(docs[i])])

\* The prompt template, an f-string over retrieved_content and query; the
\* lines of the literal keep their indentation of eight blanks.
FormatPrompt(docs, q) ==
    "You are a JioPay expert assistant. Use ONLY this context:\n        \n        "
    \o RetrievedContent(docs)
    \o "\n        \n        Question: " \o q
    \o "\n        \n        Provide a step-by-step answer with source references. If unsure, say \"I don't know\"."

\* dict(m): a new dictionary with the keys and values of m.
Dict(m) == [key \in DOMAIN m |-> m[key]]

\* Variant: only the source_url of each document is reported.
SourcesUrlOnly(docs) ==
    [i \in 1..Len(docs) |-> [source_url |-> docs[i].metadata["source_url"]]]

\* [dict(doc.metadata) for doc in retrieved_docs]
Sources(docs) == [i \in 1..Len(docs) |-> Dict(docs[i].metadata)]

\* The object client.chat.completions.create returns.
ChatCompletion(text) == [choices |-> <<[message |-> [content |-> text]]>>]

\* The dictionary the handler returns; the framework sends it with HTTP 200.
OkReply(resp, docs) ==
    [status_code |-> 200,
     body |-> [response |-> resp.choices[1].message.content,
               sources |-> Sources(docs)]]

(* ------------------------------- state --------------------------------- *)

VARIABLES
    started,         \* the module body has run and the server accepts requests
    loadAttempts,    \* how often FAISS.load_local was called
    vector_store,    \* the module-level vector_store
    pc,              \* per request: where the handler is
    query,           \* per request: the local `query`
    retrieved_docs,  \* per request: the local `retrieved_docs`
    prompt,          \* per request: the local `prompt`
    response,        \* per request: the local `response`
    reply,           \* per request: the HTTP reply sent
    searchLog,       \* per request: the similarity_search calls made for it
    completionLog,   \* per request: the completion calls made for it
    steps,           \* per request: the steps the handler took, in order
    health           \* the replies GET / has given

vars == <<started, loadAttempts, vector_store, pc, query, retrieved_docs, prompt,
          response, reply, searchLog, completionLog, steps, health>>

locals == <<query, retrieved_docs, prompt, response>>
startup == <<started, loadAttempts, vector_store>>

NoReply == [status_code |-> 0, body |-> [detail |-> ""]]
NoResponse == [choices |-> <<>>]

Init ==
    /\ started = FALSE
    /\ loadAttempts = 0
    /\ vector_store = Unbound
    /\ pc = [r \in Reqs |-> "idle"]
    /\ query = [r \in Reqs |-> ""]
    /\ retrieved_docs = [r \in Reqs |-> <<>>]
    /\ prompt = [r \in Reqs |-> ""]
    /\ response = [r \in Reqs |-> NoResponse]
    /\ reply = [r \in Reqs |-> NoReply]
    /\ searchLog = [r \in Reqs |-> <<>>]
    /\ completionLog = [r \in Reqs |-> <<>>]
    /\ steps = [r \in Reqs |-> <<>>]
    /\ health = {}

(* ------------------------------ startup -------------------------------- *)

\* try: vector_store = FAISS.load_local(...)  except Exception: vector_store = None
\* The module body runs once; the server starts after it.
LoadIndex ==
    /\ ~started
    /\ loadAttempts' = loadAttempts + 1
    /\ \/ \E idx \in PersistedIndexes : vector_store' = idx
       \/ vector_store' = None
    /\ started' = TRUE
    /\ UNCHANGED <<pc, locals, reply, searchLog, completionLog, steps, health>>

(* ------------------------------ POST /ask ------------------------------ *)

\* The handler ends by raising HTTPException: request r is answered with it.
Fail(r, http) ==
    /\ reply' = [reply EXCEPT ![r] = http]
    /\ pc' = [pc EXCEPT ![r] = "done"]
    /\ steps' = [steps EXCEPT ![r] = Append(@, "raise")]

\* Variant: the handler does not check that the index is loaded.
AskEnterNoCheck(r, q) ==
    /\ started
    /\ pc[r] = "idle"
    /\ query' = [query EXCEPT ![r] = q]
    /\ pc' = [pc EXCEPT ![r] = "retrieve"]
    /\ UNCHANGED <<reply, steps>>
    /\ UNCHANGED <<startup, retrieved_docs, prompt, response, searchLog,
                   completionLog, health>>

\* Variant: a handler that finds the index unset loads it again.
AskEnterReload(r, q) ==
    /\ started
    /\ pc[r] = "idle"
    /\ IF vector_store = None
       THEN /\ loadAttempts' = loadAttempts + 1
            /\ \/ \E idx \in PersistedIndexes : vector_store' = idx
               \/ vector_store' = None
            /\ IF vector_store' = None
               THEN /\ Fail(r, HTTPException(StatusError, NotLoadedDetail))
                    /\ UNCHANGED query
               ELSE /\ query' = [query EXCEPT ![r] = q]
                    /\ pc' = [pc EXCEPT ![r] = "retrieve"]
                    /\ UNCHANGED <<reply, steps>>
       ELSE /\ query' = [query EXCEPT ![r] = q]
            /\ pc' = [pc EXCEPT ![r] = "retrieve"]
            /\ UNCHANGED <<reply, steps, loadAttempts, vector_store>>
    /\ UNCHANGED <<started, retrieved_docs, prompt, response, searchLog,
                   completionLog, health>>

\* A request arrives; the handler checks the index and reads the query.
AskEnter(r, q) ==
    /\ started
    /\ pc[r] = "idle"
    /\ IF vector_store = None
       THEN /\ Fail(r, HTTPException(StatusError, NotLoadedDetail))
            /\ UNCHANGED query
       ELSE /\ query' = [query EXCEPT ![r] = q]
            /\ pc' = [pc EXCEPT ![r] = "retrieve"]
            /\ UNCHANGED <<reply, steps>>
    /\ UNCHANGED <<startup, retrieved_docs, prompt, response, searchLog,
                   completionLog, health>>

\* Variant: a failed search is tried once more before the handler goes on.
SearchRetry(r) ==
    /\ pc[r] = "retrieve"
    /\ vector_store # None
    /\ LET docs == SimilaritySearch(vector_store, query[r], K)
           call(outcome) == [query |-> query[r], k |-> K, outcome |-> outcome]
       IN  /\ \/ searchLog' = [searchLog EXCEPT ![r] =
                      Append(@, call([kind |-> "return", value |-> docs]))]
              \/ \E e \in SearchErrors :
                   searchLog' = [searchLog EXCEPT ![r] =
                      Append(Append(@, call([kind |-> "raise", exc |-> e])),
                             call([kind |-> "return", value |-> docs]))]
           /\ retrieved_docs' = [retrieved_docs EXCEPT ![r] = docs]
           /\ pc' = [pc EXCEPT ![r] = "format"]
           /\ steps' = [steps EXCEPT ![r] = Append(@, "retrieve")]
           /\ UNCHANGED reply
    /\ UNCHANGED <<startup, query, prompt, response, completionLog, health>>

\* Variant: a failed search does not end the request; the handler goes on
\* with no documents.
SearchNoAbort(r) ==
    /\ pc[r] = "retrieve"
    /\ vector_store # None
    /\ \/ \E e \in SearchErrors :
            /\ searchLog' = [searchLog EXCEPT ![r] = Append(@,
                   [query |-> query[r], k |-> K,
                    outcome |-> [kind |-> "raise", exc |-> e]])]
            /\ retrieved_docs' = [retrieved_docs EXCEPT ![r] = <<>>]
       \/ LET docs == SimilaritySearch(vector_store, query[r], K)
          IN  /\ searchLog' = [searchLog EXCEPT ![r] = Append(@,
                     [query |-> query[r], k |-> K,
                      outcome |-> [kind |-> "return", value |-> docs]])]
              /\ retrieved_docs' = [retrieved_docs EXCEPT ![r] = docs]
    /\ pc' = [pc EXCEPT ![r] = "format"]
    /\ steps' = [steps EXCEPT ![r] = Append(@, "retrieve")]
    /\ UNCHANGED reply
    /\ UNCHANGED <<startup, query, prompt, response, completionLog, health>>

\* retrieved_docs = vector_store.similarity_search(query, k=3)
Search(r) ==
    /\ pc[r] = "retrieve"
    /\ IF vector_store = None
       THEN \* None has no attribute similarity_search: nothing is called
            /\ Fail(r, OnException([type |-> "AttributeError",
                   msg |-> "'NoneType' object has no attribute 'similarity_search'"]))
            /\ UNCHANGED <<retrieved_docs, searchLog>>
       ELSE \/ \E e \in SearchErrors :
                 /\ searchLog' = [searchLog EXCEPT ![r] = Append(@,
                        [query |-> query[r], k |-> K,
                         outcome |-> [kind |-> "raise", exc |-> e]])]
                 /\ Fail(r, OnException(e))
                 /\ UNCHANGED retrieved_docs
            \/ LET docs == SimilaritySearch(vector_store, query[r], K)
               IN  /\ searchLog' = [searchLog EXCEPT ![r] = Append(@,
                          [query |-> query[r], k |-> K,
                           outcome |-> [kind |-> "return", value |-> docs]])]
                   /\ retrieved_docs' = [retrieved_docs EXCEPT ![r] = docs]
                   /\ pc' = [pc EXCEPT ![r] = "format"]
                   /\ steps' = [steps EXCEPT ![r] = Append(@, "retrieve")]
                   /\ UNCHANGED reply
    /\ UNCHANGED <<startup, query, prompt, response, completionLog, health>>

\* Variant: a document without source_url is listed with an empty source
\* (metadata.get) instead of raising KeyError.
FormatTolerant(r) ==
    /\ pc[r] = "format"
    /\ LET withUrl == [i \in 1..Len(retrieved_docs[r]) |->
               IF HasSourceUrl(retrieved_docs[r][i])
               THEN retrieved_docs[r][i]
               ELSE [page_content |-> retrieved_docs[r][i].page_content,
                     metadata |-> [source_url |-> ""]]]
       IN  prompt' = [prompt EXCEPT ![r] = FormatPrompt(withUrl, query[r])]
    /\ pc' = [pc EXCEPT ![r] = "complete"]
    /\ steps' = [steps EXCEPT ![r] = Append(@, "format")]
    /\ UNCHANGED reply
    /\ UNCHANGED <<startup, query, retrieved_docs, response, searchLog,
                   completionLog, health>>

\* retrieved_content = "\n\n".join([...]); prompt = f"""..."""
Format(r) ==
    /\ pc[r] = "format"
    /\ IF \E i \in 1..Len(retrieved_docs[r]) : ~HasSourceUrl(retrieved_docs[r][i])
       THEN /\ Fail(r, OnException([type |-> "KeyError", msg |-> "source_url"]))
            /\ UNCHANGED prompt
       ELSE /\ prompt' = [prompt EXCEPT ![r] = FormatPrompt(retrieved_docs[r], query[r])]
            /\ pc' = [pc EXCEPT ![r] = "complete"]
            /\ steps' = [steps EXCEPT ![r] = Append(@, "format")]
            /\ UNCHANGED reply
    /\ UNCHANGED <<startup, query, retrieved_docs, response, searchLog,
                   completionLog, health>>

\* Variant: an answer already obtained for the same query is reused and the
\* completion client is not called again.
CompleteCached(r) ==
    /\ pc[r] = "complete"
    /\ IF \E o \in Reqs \ {r} : query[o] = query[r] /\ response[o] # NoResponse
       THEN /\ \E o \in Reqs \ {r} :
                 /\ query[o] = query[r] /\ response[o] # NoResponse
                 /\ response' = [response EXCEPT ![r] = response[o]]
            /\ pc' = [pc EXCEPT ![r] = "respond"]
            /\ steps' = [steps EXCEPT ![r] = Append(@, "complete")]
            /\ UNCHANGED <<reply, completionLog>>
       ELSE \/ \E e \in CompletionErrors :
                 /\ completionLog' = [completionLog EXCEPT ![r] = Append(@,
                        [prompt |-> prompt[r], outcome |-> [kind |-> "raise", exc |-> e]])]
                 /\ Fail(r, OnException(e))
                 /\ UNCHANGED response
            \/ \E text \in CompletionTexts :
                 /\ completionLog' = [completionLog EXCEPT ![r] = Append(@,
                        [prompt |-> prompt[r],
                         outcome |-> [kind |-> "return", value |-> ChatCompletion(text)]])]
                 /\ response' = [response EXCEPT ![r] = ChatCompletion(text)]
                 /\ pc' = [pc EXCEPT ![r] = "respond"]
                 /\ steps' = [steps EXCEPT ![r] = Append(@, "complete")]
                 /\ UNCHANGED reply
    /\ UNCHANGED <<startup, query, retrieved_docs, prompt, searchLog, health>>

\* response = client.chat.completions.create(model=..., messages=[...], temperature=0.1)
Complete(r) ==
    /\ pc[r] = "complete"
    /\ \/ \E e \in CompletionErrors :
            /\ completionLog' = [completionLog EXCEPT ![r] = Append(@,
                   [prompt |-> prompt[r], outcome |-> [kind |-> "raise", exc |-> e]])]
            /\ Fail(r, OnException(e))
            /\ UNCHANGED response
       \/ \E text \in CompletionTexts :
            /\ completionLog' = [completionLog EXCEPT ![r] = Append(@,
                   [prompt |-> prompt[r],
                    outcome |-> [kind |-> "return", value |-> ChatCompletion(text)]])]
            /\ response' = [response EXCEPT ![r] = ChatCompletion(text)]
            /\ pc' = [pc EXCEPT ![r] = "respond"]
            /\ steps' = [steps EXCEPT ![r] = Append(@, "complete")]
            /\ UNCHANGED reply
    /\ UNCHANGED <<startup, query, retrieved_docs, prompt, searchLog, health>>

\* Variant: retrieved_docs is one module-level variable shared by the
\* handlers, so the reply may list the documents of another request.
RespondShared(r) ==
    /\ pc[r] = "respond"
    /\ \E o \in Reqs :
         /\ pc[o] \notin {"idle", "retrieve"}
         /\ reply' = [reply EXCEPT ![r] = OkReply(response[r], retrieved_docs[o])]
    /\ pc' = [pc EXCEPT ![r] = "done"]
    /\ steps' = [steps EXCEPT ![r] = Append(@, "respond")]
    /\ UNCHANGED <<startup, locals, searchLog, completionLog, health>>

\* return {"response": ..., "sources": [...]}
Respond(r) ==
    /\ pc[r] = "respond"
    /\ reply' = [reply EXCEPT ![r] = OkReply(response[r], retrieved_docs[r])]
    /\ pc' = [pc EXCEPT ![r] = "done"]
    /\ steps' = [steps EXCEPT ![r] = Append(@, "respond")]
    /\ UNCHANGED <<startup, locals, searchLog, completionLog, health>>

(* -------------------------------- GET / -------------------------------- *)

\* Variant: the health check reports the state of the index.
health_check_index == IF vector_store = None THEN [status |-> "unavailable"]
                                              ELSE [status |-> "ok"]

\* return {"status": "ok"}
health_check == [status |-> "ok"]

\* GET /
HealthCheck ==
    /\ started
    /\ health' = health \cup {health_check}
    /\ UNCHANGED <<startup, pc, locals, reply, searchLog, completionLog, steps>>

(* ------------------------------------------------------------------------ *)

Next ==
    \/ LoadIndex
    \/ HealthCheck
    \/ \E r \in Reqs : \E q \in Queries : AskEnter(r, q)
    \/ \E r \in Reqs : Search(r)
    \/ \E r \in Reqs : Format(r)
    \/ \E r \in Reqs : Complete(r)
    \/ \E r \in Reqs : Respond(r)

Spec == Init /\ [][Next]_vars

(* ------------------------ vocabulary of the claims --------------------- *)

\* The two states of section 4.3.
Ready == started /\ vector_store.kind = "FAISS"
Unavailable == started /\ vector_store = None

Finished(r) == pc[r] = "done"
InFlight(r) == pc[r] \notin {"idle", "done"}

\* The outcome of the last similarity_search call made for request r.
SearchReturned(r) ==
    Len(searchLog[r]) >= 1 /\ searchLog[r][Len(searchLog[r])].outcome.kind = "return"
SearchRaised(r) ==
    Len(searchLog[r]) >= 1 /\ searchLog[r][Len(searchLog[r])].outcome.kind = "raise"
Retrieved(r) == searchLog[r][Len(searchLog[r])].outcome.value
SearchError(r) == searchLog[r][Len(searchLog[r])].outcome.exc

\* The outcome of the last completion call made for request r.
CompletionReturned(r) ==
    Len(completionLog[r]) >= 1
    /\ completionLog[r][Len(completionLog[r])].outcome.kind = "return"
CompletionRaised(r) ==
    Len(completionLog[r]) >= 1
    /\ completionLog[r][Len(completionLog[r])].outcome.kind = "raise"
Completed(r) == completionLog[r][Len(completionLog[r])].outcome.value
CompletionError(r) == completionLog[r][Len(completionLog[r])].outcome.exc

AllHaveSourceUrl(docs) ==
    \A i \in 1..Len(docs) : "source_url" \in DOMAIN docs[i].metadata

\* Prompt assembly succeeded for request r.
Assembled(r) == SearchReturned(r) /\ AllHaveSourceUrl(Retrieved(r))

\* The number of completion calls made so far, over all requests.
TotalCompletionCalls ==
    Cardinality(UNION {{<<r, i>> : i \in 1..Len(completionLog[r])} : r \in Reqs})

Error500(detail) == [status_code |-> 500, body |-> [detail |-> detail]]

(* -------------------------------- claims ------------------------------- *)

\* C1: when the index failed to load, every POST /ask request ends with
\* HTTP 500 and the detail "FAISS vector store not loaded", and neither the
\* retriever nor the completion client is called for it.
C1_UnavailableFixedError ==
    Unavailable =>
        \A r \in Reqs :
            /\ ~InFlight(r)
            /\ searchLog[r] = <<>>
            /\ completionLog[r] = <<>>
            /\ Finished(r) => reply[r] = Error500("FAISS vector store not loaded")

\* Every request was sent while the index is unavailable, and was answered.
C1_Witness ==
    /\ Unavailable
    /\ \A r \in Reqs : Finished(r) /\ reply[r].status_code = 500

\* C2: with the index loaded, a request that ran through without a failure
\* is answered 200, and every 200 reply carries exactly as many sources as
\* the retriever returned (at most 3), in retrieval order, each the metadata
\* of the corresponding document with its keys and values unchanged, and the
\* response field is the text the completion client returned.
C2_SourcesAreRetrievedMetadata ==
    \A r \in Reqs :
        /\ (Ready /\ Finished(r) /\ Assembled(r) /\ CompletionReturned(r))
               => reply[r].status_code = 200
        /\ reply[r].status_code = 200 =>
               /\ SearchReturned(r)
               /\ CompletionReturned(r)
               /\ LET docs == Retrieved(r)
                      sources == reply[r].body.sources
                  IN  /\ Len(sources) = Len(docs)
                      /\ Len(sources) <= 3
                      /\ \A i \in 1..Len(docs) :
                             /\ DOMAIN sources[i] = DOMAIN docs[i].metadata
                             /\ \A key \in DOMAIN sources[i] :
                                    sources[i][key] = docs[i].metadata[key]
               /\ reply[r].body.response = Completed(r).choices[1].message.content

\* A 200 reply with three sources, one of them with a title beside its URL.
C2_Witness ==
    \E r \in Reqs :
        /\ reply[r].status_code = 200
        /\ Len(reply[r].body.sources) = 3
        /\ \E i \in 1..3 : DOMAIN reply[r].body.sources[i] = {"source_url", "title"}
        /\ \E i \in 1..3 : DOMAIN reply[r].body.sources[i] = {"source_url"}

\* C3: in the ready state, a request whose retrieval or completion call raised
\* an error ends with HTTP 500 whose detail is the error's message, and the
\* reply has neither a response field nor sources.
C3_FailureDiscardsPartialResult ==
    Ready =>
        \A r \in Reqs :
            /\ (Finished(r) /\ SearchRaised(r)) =>
                   reply[r] = Error500(SearchError(r).msg)
            /\ (Finished(r) /\ CompletionRaised(r)) =>
                   reply[r] = Error500(CompletionError(r).msg)
            /\ (SearchRaised(r) \/ CompletionRaised(r)) =>
                   /\ Finished(r)
                   /\ DOMAIN reply[r].body = {"detail"}

\* The completion call failed after documents had been retrieved.
C3_Witness ==
    /\ Ready
    /\ \E r \in Reqs :
        /\ Finished(r)
        /\ CompletionRaised(r)
        /\ Len(Retrieved(r)) >= 1
        /\ reply[r].body.detail = "Rate limit reached"

\* C4: GET / returns {"status": "ok"} in every state in which the server
\* answers, whether the index is loaded or not and whatever POST /ask
\* requests ended or are in flight; every reply it gave was that one.
C4_HealthAlwaysOk ==
    started =>
        /\ health_check = [status |-> "ok"]
        /\ health \subseteq {[status |-> "ok"]}

\* The health check answered while the index is unavailable and POST /ask
\* requests had failed.
C4_Witness ==
    /\ Unavailable
    /\ health # {}
    /\ \E r \in Reqs : Finished(r) /\ reply[r].status_code = 500

\* C5 as stated: in the ready state, after n requests whose retrieval
\* succeeded, the completion client has been called exactly n times.
C5_AsStated ==
    (Ready /\ \A r \in Reqs : ~InFlight(r)) =>
        TotalCompletionCalls = Cardinality({r \in Reqs : SearchReturned(r)})

\* C5, amended: in the ready state, after n requests whose retrieval and
\* prompt assembly succeeded, the completion client has been called exactly
\* n times, once for each of them, also when they carry the same query; and
\* the response of each 200 reply is what its own call returned.
C5_NoCaching ==
    /\ (Ready /\ \A r \in Reqs : ~InFlight(r)) =>
           /\ TotalCompletionCalls = Cardinality({r \in Reqs : Assembled(r)})
           /\ \A r \in Reqs : Assembled(r) => Len(completionLog[r]) = 1
    /\ \A r \in Reqs :
           reply[r].status_code = 200 =>
               /\ CompletionReturned(r)
               /\ reply[r].body.response = Completed(r).choices[1].message.content

\* Two finished requests with the same query, each with its own completion
\* call, that were given different answers.
C5_Witness ==
    /\ Ready
    /\ \E r1, r2 \in Reqs :
        /\ r1 # r2
        /\ Finished(r1) /\ Finished(r2)
        /\ query[r1] = query[r2]
        /\ Len(completionLog[r1]) = 1 /\ Len(completionLog[r2]) = 1
        /\ completionLog[r1][1].prompt = completionLog[r2][1].prompt
        /\ reply[r1].status_code = 200 /\ reply[r2].status_code = 200
        /\ reply[r1].body.response # reply[r2].body.response

\* C6 as stated: for every POST /ask request, exactly one similarity_search
\* call and exactly one completion call are made.
C6_AsStated ==
    \A r \in Reqs :
        Finished(r) => Len(searchLog[r]) = 1 /\ Len(completionLog[r]) = 1

\* C6, amended: a request makes at most one similarity_search call and at
\* most one completion call, with no retry after a failure; a finished
\* request made exactly one similarity_search call iff the index is loaded,
\* and exactly one completion call iff its retrieval and prompt assembly
\* succeeded.
C6_AtMostOneCallEach ==
    \A r \in Reqs :
        /\ Len(searchLog[r]) <= 1
        /\ Len(completionLog[r]) <= 1
        /\ Finished(r) =>
               /\ Len(searchLog[r]) = 1 <=> Ready
               /\ Len(completionLog[r]) = 1 <=> Assembled(r)

\* One request failed in retrieval and was not retried, another one made
\* one call of each kind.
C6_Witness ==
    \E r1, r2 \in Reqs :
        /\ Finished(r1) /\ SearchRaised(r1)
        /\ Len(searchLog[r1]) = 1 /\ Len(completionLog[r1]) = 0
        /\ Finished(r2) /\ CompletionRaised(r2)
        /\ Len(searchLog[r2]) = 1 /\ Len(completionLog[r2]) = 1

\* C7: the index load is attempted exactly once, and once startup has
\* finished no step changes vector_store: the system never moves from
\* unavailable to ready or from ready to unavailable.
C7_StateFixedAfterStartup ==
    [][ /\ loadAttempts' <= 1
        /\ started' => loadAttempts' = 1
        /\ started =>
              /\ started'
              /\ loadAttempts' = loadAttempts
              /\ vector_store' = vector_store
              /\ Unavailable' <=> Unavailable
              /\ Ready' <=> Ready ]_vars

\* Still unavailable after every request was answered and GET / was served.
C7_Witness ==
    /\ Unavailable
    /\ loadAttempts = 1
    /\ health # {}
    /\ \A r \in Reqs : Finished(r)

\* C8: within one request the steps are taken in the order retrieve, format,
\* complete, respond; the completion client is called only after retrieval
\* and prompt assembly succeeded, with the prompt built from that request's
\* retrieved documents and query; a 200 reply is sent only after the
\* completion call returned; when retrieval fails the completion client is
\* not called.
C8_StepsInOrder ==
    LET order == <<"retrieve", "format", "complete", "respond">>
        IsPrefix(s, t) == Len(s) <= Len(t) /\ \A i \in 1..Len(s) : s[i] = t[i]
    IN  \A r \in Reqs :
            /\ \/ IsPrefix(steps[r], order)
               \/ /\ Len(steps[r]) >= 1
                  /\ steps[r][Len(steps[r])] = "raise"
                  /\ Len(steps[r]) <= 4
                  /\ IsPrefix(SubSeq(steps[r], 1, Len(steps[r]) - 1), order)
            /\ \A i \in 1..Len(completionLog[r]) :
                   /\ Assembled(r)
                   /\ \E j \in 1..Len(steps[r]) : steps[r][j] = "format"
                   /\ searchLog[r][Len(searchLog[r])].query = query[r]
                   /\ completionLog[r][i].prompt = FormatPrompt(Retrieved(r), query[r])
            /\ reply[r].status_code = 200 =>
                   /\ CompletionReturned(r)
                   /\ steps[r] = order
            /\ SearchRaised(r) => completionLog[r] = <<>>

\* A request that took all four steps, with documents in its prompt.
C8_Witness ==
    \E r \in Reqs :
        /\ steps[r] = <<"retrieve", "format", "complete", "respond">>
        /\ Len(Retrieved(r)) >= 2
        /\ reply[r].status_code = 200

\* The reply of a request that runs alone on index vs with query q, when its
\* search ends with sOut and its completion call with cOut.
ReplyAlone(vs, q, sOut, cOut) ==
    IF vs = None THEN Error500("FAISS vector store not loaded")
    ELSE IF sOut.kind = "raise" THEN Error500(sOut.exc.msg)
    ELSE IF ~AllHaveSourceUrl(sOut.value) THEN Error500("'source_url'")
    ELSE IF cOut.kind = "raise" THEN Error500(cOut.exc.msg)
    ELSE [status_code |-> 200,
          body |-> [response |-> cOut.value.choices[1].message.content,
                    sources |-> [i \in 1..Len(sOut.value) |-> sOut.value[i].metadata]]]

NoOutcome == [kind |-> "none"]

\* C9: however the steps of concurrent requests interleave, every request
\* ends as if it had run alone: what its search returns depends on the index
\* and its own query only, its locals hold its own results, its reply is
\* the reply of a lone run with its own query and the outcomes of its own
\* calls; and no step of a handler changes the loaded index.
C9_RequestsIndependent ==
    /\ [](\A r \in Reqs :
            /\ SearchReturned(r) =>
                   /\ Retrieved(r) = SimilaritySearch(vector_store, query[r], 3)
                   /\ pc[r] \in {"format", "complete", "respond"} =>
                          retrieved_docs[r] = Retrieved(r)
            /\ pc[r] = "respond" => CompletionReturned(r) /\ response[r] = Completed(r)
            /\ Finished(r) =>
                   reply[r] = ReplyAlone(vector_store, query[r],
                       IF searchLog[r] = <<>> THEN NoOutcome
                       ELSE searchLog[r][Len(searchLog[r])].outcome,
                       IF completionLog[r] = <<>> THEN NoOutcome
                       ELSE completionLog[r][Len(completionLog[r])].outcome))
    /\ [][started => vector_store' = vector_store]_vars

\* Two requests with different queries are in flight at once, both about to
\* reply, holding different documents and different answers.
C9_Witness ==
    \E r1, r2 \in Reqs :
        /\ pc[r1] = "respond" /\ pc[r2] = "respond"
        /\ query[r1] # query[r2]
        /\ retrieved_docs[r1] # retrieved_docs[r2]
        /\ Len(retrieved_docs[r1]) = 3
        /\ response[r1] # response[r2]

\* C10: in the ready state, when a retrieved document has no 'source_url'
\* key, prompt assembly fails: the request ends with HTTP 500 whose detail
\* is the text of the KeyError, and the completion client is not called;
\* a retrieval that returns no documents is no failure: the completion
\* client is called once, and when it answers the reply is 200 with an
\* empty list of sources.
C10_MissingSourceUrlFails ==
    Ready =>
        \A r \in Reqs :
            /\ (SearchReturned(r) /\ ~AllHaveSourceUrl(Retrieved(r))) =>
                   /\ pc[r] \in {"format", "done"}
                   /\ completionLog[r] = <<>>
                   /\ Finished(r) => reply[r] = Error500("'source_url'")
            /\ (SearchReturned(r) /\ Retrieved(r) = <<>>) =>
                   /\ pc[r] \in {"respond", "done"} => Len(completionLog[r]) = 1
                   /\ Finished(r) =>
                          \/ CompletionRaised(r)
                          \/ /\ reply[r].status_code = 200
                             /\ reply[r].body.sources = <<>>
                             /\ reply[r].body.response =
                                    Completed(r).choices[1].message.content

\* Retrieval returned a document with a source_url and one without, and the
\* request ended with the KeyError.
C10_Witness ==
    /\ Ready
    /\ \E r \in Reqs :
        /\ Finished(r)
        /\ SearchReturned(r)
        /\ \E i, j \in 1..Len(Retrieved(r)) :
               /\ "source_url" \in DOMAIN Retrieved(r)[i].metadata
               /\ "source_url" \notin DOMAIN Retrieved(r)[j].metadata
        /\ reply[r].body.detail = "'source_url'"

\* An empty retrieval answered with 200 and no sources.
C10_EmptyRetrievalReached ==
    /\ Ready
    /\ \E r \in Reqs :
        /\ Finished(r)
        /\ SearchReturned(r) /\ Retrieved(r) = <<>>
        /\ reply[r].status_code = 200 /\ reply[r].body.sources = <<>>

=============================================================================
